---------------------------- MODULE Spec2Model ----------------------------
(***************************************************************************)
(* Model of model_api.py: the Flask service that loads one llama.cpp model *)
(* at start-up (load_model) and serves /, /health and /chat from the two   *)
(* module globals _LLM and _MODEL_ERROR.                                   *)
(*                                                                         *)
(* Python values are tagged records, so that values of different Python    *)
(* types can be compared.  The engine (llama_cpp.Llama), the file system,  *)
(* the request bodies and the clock are the environment: their outcomes    *)
(* are chosen with \E from the small sets defined below.                   *)
(***************************************************************************)
EXTENDS Integers, Sequences, FiniteSets, TLC

VARIABLES
    env,           \* the file system and the library: does MODEL_PATH exist,
                   \* and what Llama(...) does when it is called
    pc,            \* position of __main__: "start" | "serving" | "crashed"
    _LLM,          \* module global _LLM
    _MODEL_ERROR,  \* module global _MODEL_ERROR
    model_loaded,  \* __main__'s local: what load_model() returned
    initTried,     \* whether the latest load_model() called Llama(...)
    accepted,      \* number of requests accepted so far (the last one's id)
    inEngine,      \* id -> the /chat requests inside create_chat_completion
    raisedAt,      \* the value of accepted when a create_chat_completion
                   \* call last raised (0: none has)
    last           \* the exchange the latest handler step completed

vars == <<env, pc, _LLM, _MODEL_ERROR, model_loaded, initTried,
          accepted, inEngine, raisedAt, last>>

slot == <<_LLM, _MODEL_ERROR>>

---------------------------------------------------------------------------
(* Bounds of the model. *)

MaxRequests == 2

---------------------------------------------------------------------------
(* Python values. *)

PyNone == [t |-> "None"]
PyStr(s) == [t |-> "str", s |-> s]
PyInt(i) == [t |-> "int", i |-> i]
PyList(l) == [t |-> "list", l |-> l]
\* A dict is its items in insertion order: a sequence of <<key, value>>.
PyDict(items) == [t |-> "dict", items |-> items]

\* An exception: its class name and str(e).
Exc(type, msg) == [type |-> type, msg |-> msg]
Ok(v) == [ok |-> TRUE, v |-> v]
Raise(e) == [ok |-> FALSE, exc |-> e]

\* Python truthiness (bool(v)) of the values used here.
Truthy(v) ==
    CASE v.t = "None" -> FALSE
      [] v.t = "str"  -> v.s # ""
      [] v.t = "int"  -> v.i # 0
      [] v.t = "list" -> v.l # <<>>
      [] v.t = "dict" -> v.items # <<>>
      [] OTHER        -> TRUE

\* d.get(key, default) of a dict.
DictGet(d, key, default) ==
    LET hits == {i \in 1..Len(d.items) : d.items[i][1] = key}
    IN  IF hits = {} THEN default
        ELSE d.items[CHOOSE i \in hits : \A j \in hits : i <= j][2]

HasKey(d, key) == \E i \in 1..Len(d.items) : d.items[i][1] = key

---------------------------------------------------------------------------
(* Configuration (module level, lines 14-19), with the defaults of the     *)
(* environment variables.                                                  *)

MODEL_PATH == "models/qwen2.5-3b-instruct-q4_k_m.gguf"
N_CTX == 2048
N_THREADS == 1

\* The source's messages start with the glyph U+274C, which the TLA+ lexer
\* does not accept in a string; it is written [x] here.
CrossMark == "[x]"

\* The handle Llama(model_path, n_ctx, n_threads) returns.
Llama(model_path, n_ctx, n_threads) ==
    [t |-> "Llama", model_path |-> model_path, n_ctx |-> n_ctx,
     n_threads |-> n_threads]

\* What the constructor may do: return the handle or raise an Exception.
InitOutcomes ==
    { Ok(Llama(MODEL_PATH, N_CTX, N_THREADS)),
      Raise(Exc("ValueError", "Failed to load model from file: " \o MODEL_PATH)),
      Raise(Exc("RuntimeError", "")) }

---------------------------------------------------------------------------
(* load_model (lines 26-60).  exists is Path(MODEL_PATH).exists(), init    *)
(* is what Llama(...) does if it is called.  The result is the new values  *)
(* of the globals, the return value (ret), whether the constructor was     *)
(* called (init), and the exception that leaves load_model (raised, PyNone *)
(* when it returns).                                                       *)

\* load_model with the error recorded as str(e) alone, without the fixed
\* text in front of it.
load_model_bare_message(llm, err, exists, init) ==
    IF ~exists
    THEN [llm |-> llm, err |-> PyStr(MODEL_PATH),
          ret |-> FALSE, init |-> FALSE, raised |-> PyNone]
    ELSE IF init.ok
    THEN [llm |-> init.v, err |-> err, ret |-> TRUE, init |-> TRUE, raised |-> PyNone]
    ELSE [llm |-> llm, err |-> PyStr(init.exc.msg),
          ret |-> FALSE, init |-> TRUE, raised |-> PyNone]

\* load_model whose except branch does not assign _MODEL_ERROR.
load_model_forgets_error(llm, err, exists, init) ==
    IF ~exists
    THEN [llm |-> llm,
          err |-> PyStr(CrossMark \o " ERROR: Modelo NO encontrado en: " \o MODEL_PATH),
          ret |-> FALSE, init |-> FALSE, raised |-> PyNone]
    ELSE IF init.ok
    THEN [llm |-> init.v, err |-> err, ret |-> TRUE, init |-> TRUE, raised |-> PyNone]
    ELSE [llm |-> llm, err |-> err, ret |-> FALSE, init |-> TRUE, raised |-> PyNone]

\* load_model without the try block: the constructor's exception leaves it.
load_model_no_try(llm, err, exists, init) ==
    IF ~exists
    THEN [llm |-> llm,
          err |-> PyStr(CrossMark \o " ERROR: Modelo NO encontrado en: " \o MODEL_PATH),
          ret |-> FALSE, init |-> FALSE, raised |-> PyNone]
    ELSE IF init.ok
    THEN [llm |-> init.v, err |-> err, ret |-> TRUE, init |-> TRUE, raised |-> PyNone]
    ELSE [llm |-> llm, err |-> err, ret |-> FALSE, init |-> TRUE, raised |-> init.exc]

\* load_model that clears _MODEL_ERROR when the model loads.
load_model_clears_error(llm, err, exists, init) ==
    IF ~exists
    THEN [llm |-> llm,
          err |-> PyStr(CrossMark \o " ERROR: Modelo NO encontrado en: " \o MODEL_PATH),
          ret |-> FALSE, init |-> FALSE, raised |-> PyNone]
    ELSE IF init.ok
    THEN [llm |-> init.v, err |-> PyNone, ret |-> TRUE, init |-> TRUE, raised |-> PyNone]
    ELSE [llm |-> llm,
          err |-> PyStr(CrossMark \o " ERROR cargando modelo: " \o init.exc.msg),
          ret |-> FALSE, init |-> TRUE, raised |-> PyNone]

load_model(llm, err, exists, init) ==
    IF ~exists
    THEN [llm |-> llm,
          err |-> PyStr(CrossMark \o " ERROR: Modelo NO encontrado en: " \o MODEL_PATH),
          ret |-> FALSE, init |-> FALSE, raised |-> PyNone]
    ELSE IF init.ok
    THEN [llm |-> init.v, err |-> err, ret |-> TRUE, init |-> TRUE, raised |-> PyNone]
    ELSE [llm |-> llm,
          err |-> PyStr(CrossMark \o " ERROR cargando modelo: " \o init.exc.msg),
          ret |-> FALSE, init |-> TRUE, raised |-> PyNone]

---------------------------------------------------------------------------
(* Conversions used by chat. *)

Digits == <<"0", "1", "2", "3", "4", "5", "6", "7", "8", "9">>
IsDigit(c) == \E d \in 1..10 : Digits[d] = c
DigitVal(c) == (CHOOSE d \in 1..10 : Digits[d] = c) - 1

\* str(n) of an int.
RECURSIVE NatToStr(_)
NatToStr(n) == IF n < 10 THEN Digits[n + 1]
               ELSE NatToStr(n \div 10) \o Digits[(n % 10) + 1]
IntToStr(n) == IF n < 0 THEN "-" \o NatToStr(-n) ELSE NatToStr(n)

\* The value of a string of decimal digits.
RECURSIVE DigitsToNat(_)
DigitsToNat(s) ==
    IF Len(s) = 0 THEN 0
    ELSE 10 * DigitsToNat(SubSeq(s, 1, Len(s) - 1)) + DigitVal(SubSeq(s, Len(s), Len(s)))

AllDigits(s) == Len(s) > 0 /\ \A i \in 1..Len(s) : IsDigit(SubSeq(s, i, i))

\* int(v) (line 128): an int is itself; a string is read as an optionally
\* signed decimal literal or raises ValueError; None, a list or a dict
\* raises TypeError.  (Surrounding blanks and "_" separators, which int()
\* also accepts, are not among the inputs used.)
py_int(v) ==
    CASE v.t = "int" -> Ok(v.i)
      [] v.t = "str" ->
           LET neg  == Len(v.s) > 0 /\ SubSeq(v.s, 1, 1) = "-"
               pos  == Len(v.s) > 0 /\ SubSeq(v.s, 1, 1) = "+"
               body == IF neg \/ pos THEN SubSeq(v.s, 2, Len(v.s)) ELSE v.s
           IN  IF AllDigits(body)
               THEN Ok(IF neg THEN -DigitsToNat(body) ELSE DigitsToNat(body))
               ELSE Raise(Exc("ValueError",
                        "invalid literal for int() with base 10: '" \o v.s \o "'"))
      [] v.t = "None" ->
           Raise(Exc("TypeError",
             "int() argument must be a string, a bytes-like object or a real number, not 'NoneType'"))
      [] OTHER ->
           Raise(Exc("TypeError",
             "int() argument must be a string, a bytes-like object or a real number, not '"
             \o v.t \o "'"))

\* json.dumps(v, ensure_ascii=False) (line 136) with the default
\* separators ", " and ": ".  The strings used hold no character that
\* json escapes.
RECURSIVE json_dumps(_), json_join(_, _)
json_dumps(v) ==
    CASE v.t = "None" -> "null"
      [] v.t = "str"  -> "\"" \o v.s \o "\""
      [] v.t = "int"  -> IntToStr(v.i)
      [] v.t = "list" -> "[" \o json_join(v.l, FALSE) \o "]"
      [] v.t = "dict" -> "{" \o json_join(v.items, TRUE) \o "}"
json_join(xs, keyed) ==
    IF xs = <<>> THEN ""
    ELSE LET one  == IF keyed
                     THEN "\"" \o xs[1][1] \o "\": " \o json_dumps(xs[1][2])
                     ELSE json_dumps(xs[1])
         IN  IF Len(xs) = 1 THEN one
             ELSE one \o ", " \o json_join(Tail(xs), keyed)

\* v[k] for a dict key or a list index (0-based), as line 147 uses it.
GetItem(v, k) ==
    CASE v.t = "dict" ->
           IF HasKey(v, k) THEN Ok(DictGet(v, k, PyNone))
           ELSE Raise(Exc("KeyError", "'" \o k \o "'"))
      [] v.t = "list" ->
           IF k + 1 \in 1..Len(v.l) THEN Ok(v.l[k + 1])
           ELSE Raise(Exc("IndexError", "list index out of range"))
      [] OTHER ->
           Raise(Exc("TypeError", "'" \o (IF v.t = "None" THEN "NoneType" ELSE v.t)
                                    \o "' object is not subscriptable"))

---------------------------------------------------------------------------
(* The environment's inputs. *)

\* datetime.now().isoformat(): the readings the clock may give.
Instants == {"2024-05-01T10:00:00.000001", "2024-05-01T10:00:07.250000"}

\* TLC does not keep characters outside ASCII intact in the strings of a
\* state, so the accented letters of the source's literals are written
\* without their accent: "agronomo" is the source's "agr\u00f3nomo".
DEFAULT_SYSTEM == "Eres un asistente agronomo."
DEFAULT_MAX_TOKENS == 300
\* temperature=0.2 (line 143), as its decimal literal.
TEMPERATURE == "0.2"

Mensaje == PyDict(<< <<"mensaje", PyStr("Hojas amarillas en el tomate")>>,
                     <<"cultivo", PyStr("tomate")>> >>)
Sistema == PyStr("Eres un experto en riego.")

\* A request body is either bytes that are not JSON, or the JSON value they
\* encode.  The first eight are the objects omitting each subset of
\* system, context and max_tokens; the others are bodies the handler
\* cannot process.
NotJson == [t |-> "invalid"]
ObjectBodies ==
    { PyDict(<<>>),
      PyDict(<< <<"system", Sistema>> >>),
      PyDict(<< <<"context", Mensaje>> >>),
      PyDict(<< <<"max_tokens", PyInt(50)>> >>),
      PyDict(<< <<"system", Sistema>>, <<"context", PyDict(<<>>)>> >>),
      PyDict(<< <<"system", Sistema>>, <<"max_tokens", PyStr("120")>> >>),
      PyDict(<< <<"context", Mensaje>>, <<"max_tokens", PyInt(50)>> >>),
      PyDict(<< <<"system", Sistema>>, <<"context", Mensaje>>,
                <<"max_tokens", PyInt(50)>> >>) }
BadBodies ==
    { NotJson,
      PyList(<<PyInt(1)>>),
      PyDict(<< <<"max_tokens", PyStr("muchos")>> >>),
      PyDict(<< <<"context", PyStr("Hojas amarillas")>> >>),
      PyDict(<< <<"context", PyDict(<< <<"mensaje", PyInt(7)>> >>)>> >>),
      PyDict(<< <<"system", Sistema>>, <<"max_tokens", PyNone>> >>) }
Bodies == ObjectBodies \cup BadBodies

Completion(message) ==
    PyDict(<< <<"id", PyStr("chatcmpl-1")>>,
              <<"choices", PyList(<< PyDict(<< <<"index", PyInt(0)>>,
                                               <<"message", message>> >>) >>)>> >>)
FIXED_COMPLETION == "Riega el cultivo cada 3 dias."

\* What create_chat_completion may do: return a completion whose first
\* message holds a text, an empty text or None, return one without a content
\* entry or without any choice, or raise.
EngineOutcomes ==
    { Ok(Completion(PyDict(<< <<"role", PyStr("assistant")>>,
                              <<"content", PyStr(FIXED_COMPLETION)>> >>))),
      Ok(Completion(PyDict(<< <<"role", PyStr("assistant")>>,
                              <<"content", PyNone>> >>))),
      Ok(Completion(PyDict(<< <<"role", PyStr("assistant")>>,
                              <<"content", PyStr("")>> >>))),
      Ok(Completion(PyDict(<< <<"role", PyStr("assistant")>> >>))),
      Ok(PyDict(<< <<"id", PyStr("chatcmpl-1")>>, <<"choices", PyList(<<>>)>> >>)),
      Raise(Exc("ValueError", "Requested tokens (2100) exceed context window of 2048")) }

---------------------------------------------------------------------------
(* The handlers.  A response is its status and its JSON body. *)

Response(status, json) == [status |-> status, json |-> json]

\* root (lines 63-84).
root(llm, err) ==
    IF Truthy(err)
    THEN Response(500, [service |-> "Agricultural LLM API", status |-> "error",
                        error |-> err, model_loaded |-> FALSE])
    ELSE Response(200, [service |-> "Agricultural LLM API", version |-> "1.0.0",
                        status |-> "ready", model_loaded |-> (llm # PyNone),
                        model_path |-> MODEL_PATH,
                        endpoints |-> [health |-> "/health", chat |-> "/chat (POST)"]])

\* health that returns its error body without the status 500.
health_forgets_status(llm, err, now) ==
    IF Truthy(err)
    THEN Response(200, [status |-> "error", error |-> err, model_loaded |-> FALSE])
    ELSE Response(200, [status |-> "ok", timestamp |-> now,
                        model_loaded |-> (llm # PyNone), model_path |-> MODEL_PATH])

\* health (lines 87-102).
health(llm, err, now) ==
    IF Truthy(err)
    THEN Response(500, [status |-> "error", error |-> err, model_loaded |-> FALSE])
    ELSE Response(200, [status |-> "ok", timestamp |-> now,
                        model_loaded |-> (llm # PyNone), model_path |-> MODEL_PATH])

\* chat, lines 109-121: the two availability checks.  Ok(TRUE) lets the
\* request through to the try block.
chat_available(llm, err) ==
    IF Truthy(err)
    THEN Raise(Response(503, [error |-> "Model not available", details |-> err]))
    ELSE IF llm = PyNone
    THEN Raise(Response(503, [error |-> "Model not loaded",
                              details |-> PyStr("LLM instance is None")]))
    ELSE Ok(TRUE)

\* request.get_json(force=True) (line 125).
get_json(body) ==
    IF body = NotJson
    THEN Raise(Exc("BadRequest",
           "400 Bad Request: The browser (or proxy) sent a request that this server could not understand."))
    ELSE Ok(body)

\* obj.get(key, default) on any value: a dict answers, anything else has
\* no attribute get.
py_get(obj, key, default) ==
    IF obj.t = "dict" THEN Ok(DictGet(obj, key, default))
    ELSE Raise(Exc("AttributeError",
           "'" \o (IF obj.t = "None" THEN "NoneType" ELSE obj.t)
               \o "' object has no attribute 'get'"))

\* mensaje[:50] (line 131): a str or a list can be sliced.
py_slice50(v) ==
    CASE v.t = "str"  -> Ok(PyStr(SubSeq(v.s, 1, IF Len(v.s) < 50 THEN Len(v.s) ELSE 50)))
      [] v.t = "list" -> Ok(PyList(SubSeq(v.l, 1, IF Len(v.l) < 50 THEN Len(v.l) ELSE 50)))
      [] v.t = "dict" -> Raise(Exc("TypeError", "unhashable type: 'slice'"))
      [] OTHER ->
           Raise(Exc("TypeError", "'" \o (IF v.t = "None" THEN "NoneType" ELSE v.t)
                                    \o "' object is not subscriptable"))

\* chat_prepare reading context["mensaje"] instead of context.get(...).
chat_prepare_requires_mensaje(body) ==
    LET payload == get_json(body) IN
    IF ~payload.ok THEN payload ELSE
    LET system_prompt == py_get(payload.v, "system", PyStr(DEFAULT_SYSTEM)) IN
    IF ~system_prompt.ok THEN system_prompt ELSE
    LET context == py_get(payload.v, "context", PyDict(<<>>)) IN
    LET max_tokens == py_int(DictGet(payload.v, "max_tokens", PyInt(DEFAULT_MAX_TOKENS))) IN
    IF ~max_tokens.ok THEN max_tokens ELSE
    LET mensaje == IF context.v.t = "dict" THEN GetItem(context.v, "mensaje")
                   ELSE py_get(context.v, "mensaje", PyStr("")) IN
    IF ~mensaje.ok THEN mensaje ELSE
    LET shown == py_slice50(mensaje.v) IN
    IF ~shown.ok THEN shown ELSE
    Ok([messages |-> << [role |-> "system", content |-> system_prompt.v],
                        [role |-> "user", content |-> PyStr(json_dumps(context.v))] >>,
        temperature |-> TEMPERATURE,
        max_tokens |-> max_tokens.v])

\* chat_prepare sending the mensaje alone, not the whole context.
chat_prepare_sends_mensaje(body) ==
    LET payload == get_json(body) IN
    IF ~payload.ok THEN payload ELSE
    LET system_prompt == py_get(payload.v, "system", PyStr(DEFAULT_SYSTEM)) IN
    IF ~system_prompt.ok THEN system_prompt ELSE
    LET context == py_get(payload.v, "context", PyDict(<<>>)) IN
    LET max_tokens == py_int(DictGet(payload.v, "max_tokens", PyInt(DEFAULT_MAX_TOKENS))) IN
    IF ~max_tokens.ok THEN max_tokens ELSE
    LET mensaje == py_get(context.v, "mensaje", PyStr("")) IN
    IF ~mensaje.ok THEN mensaje ELSE
    LET shown == py_slice50(mensaje.v) IN
    IF ~shown.ok THEN shown ELSE
    Ok([messages |-> << [role |-> "system", content |-> system_prompt.v],
                        [role |-> "user", content |-> PyStr(json_dumps(mensaje.v))] >>,
        temperature |-> TEMPERATURE,
        max_tokens |-> max_tokens.v])

\* chat, lines 125-145: parse the body and build the engine call; the first
\* statement that raises ends it.
chat_prepare(body) ==
    LET payload == get_json(body) IN
    IF ~payload.ok THEN payload ELSE
    LET system_prompt == py_get(payload.v, "system", PyStr(DEFAULT_SYSTEM)) IN
    IF ~system_prompt.ok THEN system_prompt ELSE
    LET context == py_get(payload.v, "context", PyDict(<<>>)) IN
    LET max_tokens == py_int(DictGet(payload.v, "max_tokens", PyInt(DEFAULT_MAX_TOKENS))) IN
    IF ~max_tokens.ok THEN max_tokens ELSE
    LET mensaje == py_get(context.v, "mensaje", PyStr("")) IN
    IF ~mensaje.ok THEN mensaje ELSE
    LET shown == py_slice50(mensaje.v) IN
    IF ~shown.ok THEN shown ELSE
    Ok([messages |-> << [role |-> "system", content |-> system_prompt.v],
                        [role |-> "user", content |-> PyStr(json_dumps(context.v))] >>,
        temperature |-> TEMPERATURE,
        max_tokens |-> max_tokens.v])

\* chat_extract without the trailing or "".
chat_extract_no_default(response) ==
    LET choices == GetItem(response, "choices") IN
    IF ~choices.ok THEN choices ELSE
    LET first == GetItem(choices.v, 0) IN
    IF ~first.ok THEN first ELSE
    LET message == GetItem(first.v, "message") IN
    IF ~message.ok THEN message ELSE
    GetItem(message.v, "content")

\* chat, line 147: response["choices"][0]["message"]["content"] or "".
chat_extract(response) ==
    LET choices == GetItem(response, "choices") IN
    IF ~choices.ok THEN choices ELSE
    LET first == GetItem(choices.v, 0) IN
    IF ~first.ok THEN first ELSE
    LET message == GetItem(first.v, "message") IN
    IF ~message.ok THEN message ELSE
    LET content == GetItem(message.v, "content") IN
    IF ~content.ok THEN content ELSE
    Ok(IF Truthy(content.v) THEN content.v ELSE PyStr(""))

\* The except branch answering with a fixed text, not str(e).
chat_error_generic(e) ==
    Response(500, [error |-> "Error procesando request", type |-> e.type])

\* chat, lines 155-161: the except branch.
chat_error(e) ==
    Response(500, [error |-> "Error procesando request: " \o e.msg, type |-> e.type])

\* chat, lines 141-147: what the try block has once the engine has
\* answered: the content, or the exception raised by the engine or by the
\* extraction.
chat_content(outcome) ==
    IF ~outcome.ok THEN outcome ELSE chat_extract(outcome.v)

\* chat, lines 150-153: the success response.
chat_success(content, now) ==
    Response(200, [content |-> content, timestamp |-> now])

---------------------------------------------------------------------------
(* An exchange: a request and the response sent for it, with what the      *)
(* handler did on the way: the globals it read (seen), whether it called   *)
(* get_json (parsed), the call it made to create_chat_completion and that  *)
(* call's outcome (PyNone when there was none).                            *)

Exchange(id, path, body, seen, parsed, call, outcome, response) ==
    [id |-> id, path |-> path, body |-> body, seen |-> seen, parsed |-> parsed,
     call |-> call, outcome |-> outcome, response |-> response]

NoExchange == Exchange(0, "", PyNone, <<PyNone, PyNone>>, FALSE, PyNone, PyNone, PyNone)

\* When the file is absent what Llama(...) would do does not matter: one
\* such environment stands for all.
Environments ==
    {e \in [exists : BOOLEAN, init : InitOutcomes] : ~e.exists => e.init.ok}

Init ==
    /\ env \in Environments
    /\ pc = "start"
    /\ _LLM = PyNone
    /\ _MODEL_ERROR = PyNone
    /\ model_loaded = FALSE
    /\ initTried = FALSE
    /\ accepted = 0
    /\ inEngine = <<>>
    /\ raisedAt = 0
    /\ last = NoExchange

\* __main__ (lines 164-181): load_model(), then app.run().  An exception
\* leaving load_model would end the process before app.run().
Main ==
    /\ pc = "start"
    /\ LET r == load_model(_LLM, _MODEL_ERROR, env.exists, env.init)
       IN  /\ _LLM' = r.llm
           /\ _MODEL_ERROR' = r.err
           /\ model_loaded' = r.ret
           /\ initTried' = r.init
           /\ pc' = IF r.raised = PyNone THEN "serving" ELSE "crashed"
    /\ UNCHANGED <<env, accepted, inEngine, raisedAt, last>>

\* chat_prepare and chat_content of every input, computed once.
Prepared == [body \in Bodies |-> chat_prepare(body)]
Contents == [outcome \in EngineOutcomes |-> chat_content(outcome)]

\* The server takes one more request.
Accepting ==
    /\ pc = "serving"
    /\ accepted < MaxRequests
    /\ accepted' = accepted + 1

\* GET /.
Root ==
    /\ Accepting
    /\ last' = Exchange(accepted', "/", PyNone, slot, FALSE, PyNone, PyNone,
                        root(_LLM, _MODEL_ERROR))
    /\ UNCHANGED <<env, pc, _LLM, _MODEL_ERROR, model_loaded, initTried,
                   inEngine, raisedAt>>

\* GET /health.
Health ==
    /\ Accepting
    /\ \E now \in Instants :
         last' = Exchange(accepted', "/health", PyNone, slot, FALSE, PyNone, PyNone,
                          health(_LLM, _MODEL_ERROR, now))
    /\ UNCHANGED <<env, pc, _LLM, _MODEL_ERROR, model_loaded, initTried,
                   inEngine, raisedAt>>

\* POST /chat up to the call of the engine (lines 105-145): the request is
\* answered at once with 503 or 500, or it enters create_chat_completion.
ChatBegin ==
    /\ Accepting
    /\ \E body \in Bodies :
         LET avail == chat_available(_LLM, _MODEL_ERROR)
             call  == Prepared[body]
         IN  IF ~avail.ok
             THEN /\ last' = Exchange(accepted', "/chat", body, slot, FALSE, PyNone,
                                      PyNone, avail.exc)
                  /\ UNCHANGED inEngine
             ELSE IF ~call.ok
             THEN /\ last' = Exchange(accepted', "/chat", body, slot, TRUE, PyNone,
                                      PyNone, chat_error(call.exc))
                  /\ UNCHANGED inEngine
             ELSE /\ inEngine' = inEngine @@
                        (accepted' :> [body |-> body, seen |-> slot, call |-> call.v])
                  /\ UNCHANGED last
    /\ UNCHANGED <<env, pc, _LLM, _MODEL_ERROR, model_loaded, initTried,
                   raisedAt>>

\* ChatEnd with an except branch that drops the handle (global _LLM;
\* _LLM = None) when the engine or the extraction raises.
ChatEnd_drops_handle ==
    /\ \E id \in DOMAIN inEngine, outcome \in EngineOutcomes :
         LET content == Contents[outcome]
         IN  /\ inEngine' = [i \in DOMAIN inEngine \ {id} |-> inEngine[i]]
             /\ raisedAt' = IF outcome.ok THEN raisedAt ELSE accepted
             /\ _LLM' = IF content.ok THEN _LLM ELSE PyNone
             /\ \E response \in IF content.ok
                                THEN {chat_success(content.v, now) : now \in Instants}
                                ELSE {chat_error(content.exc)} :
                  last' = Exchange(id, "/chat", inEngine[id].body, inEngine[id].seen,
                                   TRUE, inEngine[id].call, outcome, response)
    /\ UNCHANGED <<env, pc, _MODEL_ERROR, model_loaded, initTried, accepted>>

\* POST /chat from the engine's answer on (lines 141-161).  The handler
\* has no global statement: it leaves _LLM and _MODEL_ERROR alone.
ChatEnd ==
    /\ \E id \in DOMAIN inEngine, outcome \in EngineOutcomes :
         LET content == Contents[outcome]
         IN  /\ inEngine' = [i \in DOMAIN inEngine \ {id} |-> inEngine[i]]
             /\ raisedAt' = IF outcome.ok THEN raisedAt ELSE accepted
             /\ \E response \in IF content.ok
                                THEN {chat_success(content.v, now) : now \in Instants}
                                ELSE {chat_error(content.exc)} :
                  last' = Exchange(id, "/chat", inEngine[id].body, inEngine[id].seen,
                                   TRUE, inEngine[id].call, outcome, response)
    /\ UNCHANGED <<env, pc, _LLM, _MODEL_ERROR, model_loaded, initTried,
                   accepted>>

\* load_model() called again after start-up by code that imports the
\* module (the source never does so itself); the file and the library may
\* have changed in the meantime.
Reload ==
    /\ pc = "serving"
    /\ env' \in Environments
    /\ LET r == load_model(_LLM, _MODEL_ERROR, env'.exists, env'.init)
       IN  /\ _LLM' = r.llm
           /\ _MODEL_ERROR' = r.err
           /\ initTried' = r.init
           /\ pc' = IF r.raised = PyNone THEN "serving" ELSE "crashed"
    /\ UNCHANGED <<model_loaded, accepted, inEngine, raisedAt, last>>

Next == Main \/ Root \/ Health \/ ChatBegin \/ ChatEnd

Spec == Init /\ [][Next]_vars

NextReload == Next \/ Reload

SpecReload == Init /\ [][NextReload]_vars

---------------------------------------------------------------------------
(* Vocabulary of the properties. *)

\* sub occurs in s.
Contains(s, sub) ==
    \/ Len(sub) = 0
    \/ \E i \in 1..(Len(s) - Len(sub) + 1) : SubSeq(s, i, i + Len(sub) - 1) = sub

IsChat == last.path = "/chat"
Status == last.response.status
Json == last.response.json

\* The globals a handler read: the handle is set and no error is recorded.
LoadSucceeded(seen) == seen[1] # PyNone /\ seen[2] = PyNone

\* A body the handler can process: a JSON object whose context, if given,
\* is an object whose mensaje, if given, is a string or a list, and whose
\* max_tokens, if given, is an integer or a string of decimal digits.
IntLike(v) == v.t = "int" \/ (v.t = "str" /\ AllDigits(v.s))
IntValue(v) == IF v.t = "int" THEN v.i ELSE DigitsToNat(v.s)
WellFormed(body) ==
    /\ body.t = "dict"
    /\ HasKey(body, "context") =>
         LET c == DictGet(body, "context", PyNone)
         IN  /\ c.t = "dict"
             /\ HasKey(c, "mensaje") => DictGet(c, "mensaje", PyNone).t \in {"str", "list"}
    /\ HasKey(body, "max_tokens") => IntLike(DictGet(body, "max_tokens", PyNone))

\* The shape of a value the engine returned.
Choices(result) == DictGet(result, "choices", PyList(<<>>)).l
FirstMessage(result) == DictGet(Choices(result)[1], "message", PyDict(<<>>))
HasFirstContent(result) ==
    Len(Choices(result)) > 0 /\ HasKey(FirstMessage(result), "content")
FirstContent(result) == DictGet(FirstMessage(result), "content", PyNone)

Returned == last.outcome # PyNone /\ last.outcome.ok
Raised == last.outcome # PyNone /\ ~last.outcome.ok
ReturnedFixed ==
    /\ Returned
    /\ HasFirstContent(last.outcome.v)
    /\ FirstContent(last.outcome.v) = PyStr("Riega el cultivo cada 3 dias.")

SuccessBody ==
    /\ Status = 200
    /\ DOMAIN Json = {"content", "timestamp"}
    /\ Json.content # PyNone
    /\ Json.timestamp \in Instants

---------------------------------------------------------------------------
---------------------------------------------------------------------------
(* C2: a /chat request handled while a load error is recorded is answered  *)
(* 503 with the recorded error as details; its body is not parsed and the  *)
(* engine is not called for it.                                            *)
C2_ErrorRecordedIs503 ==
    /\ (IsChat /\ last.seen[2] # PyNone) =>
          /\ Status = 503
          /\ Json.details = last.seen[2]
          /\ ~last.parsed
          /\ last.call = PyNone /\ last.outcome = PyNone
    /\ \A id \in DOMAIN inEngine : inEngine[id].seen[2] = PyNone

C2_Witness ==
    /\ IsChat /\ last.seen[2] # PyNone /\ last.body \in ObjectBodies
    /\ Status = 503 /\ Json.details = _MODEL_ERROR /\ ~last.parsed

---------------------------------------------------------------------------
(* C3: while requests are served, / and /health answer 500 with            *)
(* model_loaded false exactly when a load error is recorded, and 200 with  *)
(* model_loaded true otherwise.                                            *)
Reports(response, err) ==
    IF err # PyNone
    THEN response.status = 500 /\ response.json.model_loaded = FALSE
    ELSE response.status = 200 /\ response.json.model_loaded = TRUE

C3_HealthTellsLoadError ==
    pc = "serving" =>
        /\ Reports(root(_LLM, _MODEL_ERROR), _MODEL_ERROR)
        /\ \A now \in Instants : Reports(health(_LLM, _MODEL_ERROR, now), _MODEL_ERROR)
        /\ last.path \in {"/", "/health"} => Reports(last.response, last.seen[2])

C3_Witness ==
    /\ last.path = "/health" /\ last.seen[2] # PyNone
    /\ Status = 500 /\ Json.model_loaded = FALSE

---------------------------------------------------------------------------
(* C4: before load_model has run neither _LLM nor _MODEL_ERROR is set;     *)
(* once it has run exactly one of them is.                                 *)
C4_ExactlyOneIsSet ==
    IF pc = "start"
    THEN _LLM = PyNone /\ _MODEL_ERROR = PyNone
    ELSE (_LLM # PyNone) # (_MODEL_ERROR # PyNone)

C4_Witness ==
    pc = "serving" /\ initTried /\ _LLM = PyNone /\ _MODEL_ERROR # PyNone

---------------------------------------------------------------------------
(* C5: _LLM and _MODEL_ERROR are written once, by the step that runs       *)
(* load_model before any request is accepted; no later step, of any        *)
(* handler in any interleaving, changes them; and no /chat request is      *)
(* answered from the branch for no error and no handle.                    *)
C5_Step ==
    /\ pc = "start" => /\ accepted = 0 /\ accepted' = 0
                       /\ slot = <<PyNone, PyNone>> /\ slot' # slot
    /\ pc # "start" => slot' = slot /\ pc' = pc
    /\ (last'.path = "/chat" /\ last'.response.status = 503)
          => last'.response.json.error = "Model not available"

C5_WrittenOnceAtStartup == [][C5_Step]_vars

C5_Witness ==
    /\ pc = "serving" /\ accepted >= 2 /\ DOMAIN inEngine # {}
    /\ IsChat /\ Returned /\ Status = 200

---------------------------------------------------------------------------
(* C6: a /chat request whose engine call raises is answered 500 with the   *)
(* exception's class name as type and its message inside error; that step  *)
(* leaves _LLM and _MODEL_ERROR as they were; and a /chat request that     *)
(* arrives after it is not turned away: with a well-formed body it reaches *)
(* the engine and is answered 200 when the engine returns a completion.    *)
C6_Step ==
    /\ (last'.path = "/chat" /\ last'.outcome # PyNone /\ ~last'.outcome.ok) =>
          /\ last'.response.status = 500
          /\ last'.response.json.type = last'.outcome.exc.type
          /\ Contains(last'.response.json.error, last'.outcome.exc.msg)
          /\ last' # last => slot' = slot
    /\ (last'.path = "/chat" /\ raisedAt' > 0 /\ last'.id > raisedAt') =>
          /\ last'.response.status # 503
          /\ WellFormed(last'.body) =>
                /\ last'.outcome # PyNone
                /\ (last'.outcome.ok /\ HasFirstContent(last'.outcome.v))
                      => last'.response.status = 200

C6_EngineExceptionIs500 == [][C6_Step]_vars

C6_Witness ==
    /\ raisedAt > 0 /\ last.id > raisedAt
    /\ IsChat /\ Returned /\ Status = 200

---------------------------------------------------------------------------
(* C7: for a /chat request with a well-formed JSON object body handled     *)
(* after a successful load, the engine is called with temperature 0.2, a   *)
(* system message holding system or, if omitted, "Eres un asistente        *)
(* agronomo.", a user message holding the serialized context or, if        *)
(* omitted, the serialized {}, and max_tokens as given or, if omitted,     *)
(* 300; and the request is answered 200 when the engine returns a          *)
(* completion.                                                             *)
CalledAsAsked(body, call) ==
    /\ Len(call.messages) = 2
    /\ call.messages[1].role = "system"
    /\ call.messages[1].content =
         IF HasKey(body, "system") THEN DictGet(body, "system", PyNone)
         ELSE PyStr("Eres un asistente agronomo.")
    /\ call.messages[2].role = "user"
    /\ call.messages[2].content =
         IF HasKey(body, "context")
         THEN PyStr(json_dumps(DictGet(body, "context", PyNone)))
         ELSE PyStr("{}")
    /\ call.max_tokens =
         IF HasKey(body, "max_tokens") THEN IntValue(DictGet(body, "max_tokens", PyNone))
         ELSE 300
    /\ call.temperature = "0.2"

C7_OmittedFieldsTakeDefaults ==
    /\ \A id \in DOMAIN inEngine :
         WellFormed(inEngine[id].body) /\ CalledAsAsked(inEngine[id].body, inEngine[id].call)
    /\ (IsChat /\ LoadSucceeded(last.seen) /\ WellFormed(last.body)) =>
          /\ last.call # PyNone
          /\ CalledAsAsked(last.body, last.call)
          /\ (Returned /\ HasFirstContent(last.outcome.v)) => Status = 200

C7_Witness ==
    /\ IsChat /\ last.body = PyDict(<< <<"context", Mensaje>> >>)
    /\ last.call # PyNone
    /\ last.call.messages[1].content = PyStr(DEFAULT_SYSTEM)
    /\ last.call.messages[2].content =
         PyStr("{\"mensaje\": \"Hojas amarillas en el tomate\", \"cultivo\": \"tomate\"}")
    /\ last.call.max_tokens = DEFAULT_MAX_TOKENS
    /\ Status = 200

---------------------------------------------------------------------------
(* C8: load_model lets no exception out and the server starts.  With the   *)
(* file absent the constructor is not called and the recorded error holds  *)
(* the path; with the file present and the constructor raising, the        *)
(* recorded error holds the exception's message.  In both cases the handle *)
(* stays unset, load_model returns False, /health answers 500 and /chat    *)
(* answers 503 with the recorded error as details.                         *)
Degraded ==
    /\ _LLM = PyNone /\ ~model_loaded
    /\ \A now \in Instants : health(_LLM, _MODEL_ERROR, now).status = 500
    /\ chat_available(_LLM, _MODEL_ERROR) =
         Raise(Response(503, [error |-> "Model not available", details |-> _MODEL_ERROR]))
    /\ last.path = "/health" => Status = 500
    /\ IsChat => Status = 503 /\ Json.details = _MODEL_ERROR

C8_LoadFailureIsRecorded ==
    /\ pc # "crashed"
    /\ pc = "serving" =>
          /\ ~env.exists =>
                /\ ~initTried
                /\ _MODEL_ERROR.t = "str" /\ Contains(_MODEL_ERROR.s, MODEL_PATH)
                /\ Degraded
          /\ (env.exists /\ ~env.init.ok) =>
                /\ initTried
                /\ _MODEL_ERROR.t = "str" /\ Contains(_MODEL_ERROR.s, env.init.exc.msg)
                /\ Degraded

C8_Witness ==
    /\ pc = "serving" /\ env.exists /\ ~env.init.ok /\ env.init.exc.msg # ""
    /\ IsChat /\ Status = 503 /\ Contains(Json.details.s, env.init.exc.msg)

---------------------------------------------------------------------------
(* C9 as stated: when the engine returns, /chat answers 200 with the first *)
(* completion's text as content, and with the empty string when that text  *)
(* is null or absent (no content entry, or no first choice).               *)
C9_AbsentContentIsEmpty ==
    (IsChat /\ Returned) =>
        /\ Status = 200
        /\ Json.content =
             IF HasFirstContent(last.outcome.v) /\ FirstContent(last.outcome.v) # PyNone
             THEN FirstContent(last.outcome.v)
             ELSE PyStr("")

(* C9 amended: when the engine returns a result whose first choice's       *)
(* message has a content entry, /chat answers 200 with that content, or    *)
(* with the empty string when it is null or empty; when the result has no  *)
(* first choice or no content entry, /chat answers 500 with type           *)
(* IndexError or KeyError.                                                 *)
C9_NullContentIsEmpty ==
    (IsChat /\ Returned) =>
        IF HasFirstContent(last.outcome.v)
        THEN /\ Status = 200
             /\ Json.content = IF FirstContent(last.outcome.v) \in {PyNone, PyStr("")}
                               THEN PyStr("")
                               ELSE FirstContent(last.outcome.v)
        ELSE /\ Status = 500
             /\ Json.type = IF Len(Choices(last.outcome.v)) = 0 THEN "IndexError"
                            ELSE "KeyError"

C9_Witness ==
    /\ IsChat /\ Returned /\ HasFirstContent(last.outcome.v)
    /\ FirstContent(last.outcome.v) = PyNone
    /\ Status = 200 /\ Json.content = PyStr("")

---------------------------------------------------------------------------
(* C10: once a load error is recorded no step clears it, not a handler's   *)
(* and not a further load_model call, even one that loads the model; and   *)
(* every request accepted while it is recorded is answered at once, /chat  *)
(* with 503 and / and /health with 500.                                    *)
C10_Step ==
    _MODEL_ERROR # PyNone =>
        /\ _MODEL_ERROR' # PyNone /\ Truthy(_MODEL_ERROR')
        /\ accepted' # accepted =>
              /\ last'.id = accepted' /\ last'.seen = slot
              /\ last'.response.status = IF last'.path = "/chat" THEN 503 ELSE 500

C10_DegradedIsAbsorbing == [][C10_Step]_vars

C10_Witness ==
    /\ ~model_loaded /\ _LLM # PyNone /\ _MODEL_ERROR # PyNone
    /\ last.seen = slot /\ IsChat /\ Status = 503

=============================================================================
